---- MODULE Spec2Model ----
(***************************************************************************)
(* Model of the warehouse loader PharmaETL (src/etl/incremental_etl.py):   *)
(* one load session over a warehouse with five dimension relations and    *)
(* one fact relation.  load_dimension and incremental_load_facts are       *)
(* modelled statement by statement (execute_batch pages, commit,           *)
(* rollback); run_full_etl is modelled as the sequence of its calls.       *)
(***************************************************************************)
EXTENDS Integers, Sequences, FiniteSets, TLC

\* ------------------------------------------------------------------ bounds
\* Keys of dimension rows range over 1..MaxKey.
MaxKey == 2
\* sale_ids of fact rows range over 1..MaxSaleId.
MaxSaleId == 3
\* An extracted table (DataFrame) holds at most MaxRows rows.
MaxRows == 3
\* run_full_etl is executed at most MaxRuns times in one behaviour.
MaxRuns == 3

\* page_size=1000 of both execute_batch calls, scaled down to 2 so that a
\* table of MaxRows rows spans more than one page.
page_size == 2

\* ------------------------------------------------------------------- data
\* The non-key columns of a row, as one value.
Vals == {"a", "b"}
\* The value pandas gives a missing field, and psycopg2 sends as 'NaN'.
NaN == "NaN"
\* The text of the non-key fields of a CSV record: "" when one is missing.
Cells == Vals \cup {""}
\* A row: its first column (date_key, rep_key, ..., sale_id) and the rest.
Row == [id : 1..(IF MaxKey > MaxSaleId THEN MaxKey ELSE MaxSaleId),
        val : Vals \cup {NaN}]
\* The rows a client of the loader puts in the tables it builds.
DimRow == {r \in Row : r.id <= MaxKey /\ r.val \in Vals}

DimTables == {"dim_date", "dim_sales_rep", "dim_doctor", "dim_product", "dim_territory"}
FactTable == "fact_sales"
Tables == DimTables \cup {FactTable}

SeqsUpTo(S, n) == UNION {[1..k -> S] : k \in 0..n}
\* The tables extract_csv can hand to load_dimension.
DataFrames == SeqsUpTo(DimRow, MaxRows)
\* The tables it can hand to incremental_load_facts: sale_id is the only
\* column the fact load looks at, so the other columns of a sales row take
\* one value; rows with equal sale_id are equal rows.
FactRow == {r \in Row : r.id <= MaxSaleId /\ r.val = "a"}
FactFrames == SeqsUpTo(FactRow, MaxRows)

\* A relation is a multiset of rows: the number of copies of each row.
EmptyTable == [r \in Row |-> 0]
RowsOf(tbl) == {r \in Row : tbl[r] > 0}
KeysOf(tbl) == {r.id : r \in RowsOf(tbl)}
CountId(tbl, k) ==
    LET RECURSIVE Sum(_)
        Sum(S) == IF S = {} THEN 0
                  ELSE LET r == CHOOSE x \in S : TRUE IN tbl[r] + Sum(S \ {r})
    IN Sum({r \in Row : r.id = k})
SetMax(S) == IF S = {} THEN 0 ELSE CHOOSE m \in S : \A x \in S : x <= m
Min2(a, b) == IF a <= b THEN a ELSE b
\* The element of a one-element set: Only({f(r) : r \in {e}}) is f(e), with
\* e evaluated once.
Only(S) == CHOOSE x \in S : TRUE

\* The multiset of the rows of a DataFrame.
RECURSIVE BagOfSeq(_)
BagOfSeq(s) ==
    IF s = << >> THEN EmptyTable
    ELSE [BagOfSeq(Tail(s)) EXCEPT ![Head(s)] = @ + 1]
BagPlus(t1, t2) == [r \in Row |-> t1[r] + t2[r]]

\* --------------------------------------------------------------- schema
\* The dimension relations carry a primary key on their first column.
DimKeyed == TRUE

VARIABLES
    db,         \* committed contents of every relation of the warehouse
    factKeyed,  \* whether pharma.fact_sales has a unique key on sale_id
    conn,       \* self.conn:   "none" | "open" | "closed"
    cursor,     \* self.cursor: "none" | "open" | "closed"
    txn,        \* transaction status of the session: "idle" | "active" | "aborted"
    target,     \* the relation the client of the loader works on
    last,       \* the last load call: its arguments, what it read, its outcome
    hwm,        \* the largest MAX(sale_id) observed in any state so far
    files,      \* the content of data/<table>.csv, per table
    db0,        \* the warehouse before the first run_full_etl
    pc,         \* position in run_full_etl
    stage,      \* index in Stages of the table being extracted or loaded
    df,         \* the DataFrame extract_csv returned last
    exc,        \* the exception propagating out of run_full_etl, or "none"
    ops,        \* the operations run_full_etl has issued in this execution
    closes,     \* the number of close() calls of this execution
    runs,       \* the number of run_full_etl executions started
    result,     \* how the last finished execution ended: "none" | "ok" | an error
    failed,     \* the load operations that, in some execution so far, raised
                \* after the server had executed part of their batch
    sess        \* the load sessions of two concurrent processes: for each,
                \* its position in incremental_load_facts and its transaction

sessVars == <<conn, cursor, txn>>
etlVars == <<files, db0, pc, stage, df, exc, ops, closes, runs, result, failed>>
vars == <<db, factKeyed, conn, cursor, txn, target, last, hwm,
          files, db0, pc, stage, df, exc, ops, closes, runs, result, failed, sess>>

\* ------------------------------------------------ the session's statements
\* A transaction on one relation: the committed rows, the rows this
\* session sees, and the transaction status.
Tx(committed, status) == [db |-> committed, work |-> committed, status |-> status]

\* conn.commit(): makes the session's writes visible; a COMMIT of an
\* aborted transaction is a rollback.
commit(tx) ==
    IF tx.status = "active"
    THEN [db |-> tx.work, work |-> tx.work, status |-> "idle"]
    ELSE [db |-> tx.db, work |-> tx.db, status |-> "idle"]

\* conn.rollback(): discards the session's uncommitted writes.
rollback(tx) == [db |-> tx.db, work |-> tx.db, status |-> "idle"]

\* One INSERT statement against relation tbl.
Insert(tbl, r, keyed, onConflict) ==
    IF keyed /\ r.id \in KeysOf(tbl)
    THEN CASE onConflict = "DO NOTHING" ->
                [ok |-> TRUE, tbl |-> tbl, err |-> "none"]
           [] onConflict = "DO UPDATE" ->
                [ok |-> TRUE,
                 tbl |-> [x \in Row |-> IF x = r THEN 1
                                        ELSE IF x.id = r.id THEN 0 ELSE tbl[x]],
                 err |-> "none"]
           [] OTHER ->
                [ok |-> FALSE, tbl |-> tbl, err |-> "UniqueViolation"]
    ELSE [ok |-> TRUE, tbl |-> [tbl EXCEPT ![r] = @ + 1], err |-> "none"]

\* The statements lo..hi of one page, in order; statement failAt is refused
\* by the server (a value of the wrong type); the first failure ends the page.
RECURSIVE ExecPage(_, _, _, _, _, _, _)
ExecPage(tbl, records, lo, hi, keyed, onConflict, failAt) ==
    IF lo > hi THEN [ok |-> TRUE, tbl |-> tbl, err |-> "none"]
    ELSE IF lo = failAt THEN [ok |-> FALSE, tbl |-> tbl, err |-> "DataError"]
    ELSE Only({IF r.ok
               THEN ExecPage(r.tbl, records, lo + 1, hi, keyed, onConflict, failAt)
               ELSE r :
               r \in {Insert(tbl, records[lo], keyed, onConflict)}})

\* execute_batch from row lo on: one cursor.execute per page of page_size
\* statements.  The first statement opens the transaction; a failing page
\* aborts it and raises.  With autocommit every page is its own transaction.
RECURSIVE Pages(_, _, _, _, _, _, _)
Pages(tx, records, lo, keyed, onConflict, failAt, autocommit) ==
    IF lo > Len(records)
    THEN [ok |-> TRUE, tx |-> tx, err |-> "none",
          pages |-> (Len(records) + page_size - 1) \div page_size]
    ELSE LET hi == Min2(lo + page_size - 1, Len(records))
         IN Only({IF r.ok
                  THEN Pages(IF autocommit
                             THEN [db |-> r.tbl, work |-> r.tbl, status |-> "idle"]
                             ELSE [tx EXCEPT !.work = r.tbl, !.status = "active"],
                             records, hi + 1, keyed, onConflict, failAt, autocommit)
                  ELSE [ok |-> FALSE,
                        tx |-> IF autocommit THEN tx
                               ELSE [tx EXCEPT !.status = "aborted"],
                        err |-> r.err,
                        pages |-> (lo - 1) \div page_size] :
                  r \in {ExecPage(tx.work, records, lo, hi, keyed, onConflict, failAt)}})

\* execute_batch on a session in autocommit mode (a slip the properties
\* must detect); the loader's session is not in autocommit mode.
execute_batch_autocommit(tx, records, keyed, onConflict, failAt) ==
    Pages(tx, records, 1, keyed, onConflict, failAt, TRUE)

execute_batch(tx, records, keyed, onConflict, failAt) ==
    Pages(tx, records, 1, keyed, onConflict, failAt, FALSE)

\* ------------------------------------------------------------ the loader
\* The ON CONFLICT clause of the INSERT statements.  dimension_query_plain
\* and dimension_query_update are slips of dimension_query: the clause
\* left out, and an upsert in its place.
dimension_query_plain == "NONE"
dimension_query_update == "DO UPDATE"
dimension_query == "DO NOTHING"
\* (fact_query_on_conflict: the slip of the dimension statement's clause in
\* the fact statement.)
fact_query_on_conflict == "DO NOTHING"
fact_query == "NONE"

\* SELECT COALESCE(MAX(sale_id), 0) FROM pharma.fact_sales
\* (select_min_id: the slip of MIN for MAX).
select_min_id(tbl) ==
    IF KeysOf(tbl) = {} THEN 0
    ELSE CHOOSE m \in KeysOf(tbl) : \A x \in KeysOf(tbl) : m <= x
select_max_id(tbl) == SetMax(KeysOf(tbl))

\* df[df['sale_id'] > max_id]  (new_records_ge: the slip of >= for >).
new_records_ge(d, max_id) == SelectSeq(d, LAMBDA r : r.id >= max_id)
new_records(d, max_id) == SelectSeq(d, LAMBDA r : r.id > max_id)

\* What a load call leaves: the relation's transaction, how the call ended
\* ("ok" | "noop" | "raised"), the error it raised, the watermark it read,
\* the records it sent and the pages that were executed in full.
CallResult(tx, outcome, err, max_id, records, pages) ==
    [tx |-> tx, outcome |-> outcome, err |-> err, max_id |-> max_id,
     records |-> records, pages |-> pages]

\* load_dimension(df, table_name) on a relation with the given committed
\* rows, in a session whose transaction status is `status`.
load_dimension(committed, status, d, failAt) ==
    Only({IF b.ok
          THEN CallResult(commit(b.tx), "ok", "none", 0, d, b.pages)
          ELSE CallResult(rollback(b.tx), "raised", b.err, 0, d, b.pages) :
          b \in {execute_batch(Tx(committed, status), d, DimKeyed, dimension_query,
                               failAt)}})

\* incremental_load_facts(df): the SELECT opens the transaction; the early
\* return neither commits nor rolls back.
incremental_load_facts(committed, status, d, keyed, failAt) ==
    LET tx0 == Tx(committed, "active")
        w == select_max_id(tx0.work)
        recs == new_records(d, w)
    IN IF Len(recs) = 0
       THEN CallResult(tx0, "noop", "none", w, recs, 0)
       ELSE Only({IF b.ok
                  THEN CallResult(commit(b.tx), "ok", "none", w, recs, b.pages)
                  ELSE CallResult(rollback(b.tx), "raised", b.err, w, recs, b.pages) :
                  b \in {execute_batch(tx0, recs, keyed, fact_query, failAt)}})

\* connect(): how = "ok", or psycopg2.connect raises ("connect"), or
\* conn.cursor() raises after the connection was made ("cursor").
connect(c, cur, how) ==
    CASE how = "ok" -> [conn |-> "open", cursor |-> "open", err |-> "none"]
      [] how = "cursor" -> [conn |-> "open", cursor |-> cur, err |-> "ConnectionError"]
      [] OTHER -> [conn |-> c, cursor |-> cur, err |-> "ConnectionError"]

\* close(): closes the cursor, then the connection, when they are set.
close(c, cur) ==
    [conn |-> IF c # "none" THEN "closed" ELSE c,
     cursor |-> IF cur # "none" THEN "closed" ELSE cur]

\* No second process: the load session is the only one.
NoSessions == << >>

NoCall ==
    [op |-> "none", table |-> "none", df |-> << >>, pre |-> EmptyTable,
     failAt |-> 0, outcome |-> "none", err |-> "none", max_id |-> 0,
     records |-> << >>, pages |-> 0, again |-> FALSE]
Call(op, t, d, pre, failAt, again, r) ==
    [op |-> op, table |-> t, df |-> d, pre |-> pre, failAt |-> failAt,
     outcome |-> r.outcome, err |-> r.err, max_id |-> r.max_id,
     records |-> r.records, pages |-> r.pages, again |-> again]

Highest(h, tbl) == IF SetMax(KeysOf(tbl)) > h THEN SetMax(KeysOf(tbl)) ELSE h

\* In the actions below the result of a call is bound once, as the one
\* element of a singleton set, and its fields are then read.

\* ------------------------------------------------ a client of the loader
\* A client holding a connected session calls the loader on one relation,
\* with any table and with any statement of the batch refused (failAt = 0:
\* none), and looks at the outcome of each call before the next one.
ApiTables == {"dim_product", FactTable}

InitApi ==
    /\ db = [t \in Tables |-> EmptyTable]
    /\ target \in ApiTables
    /\ factKeyed \in IF target = FactTable THEN BOOLEAN ELSE {TRUE}
    /\ conn = "open" /\ cursor = "open" /\ txn = "idle"
    /\ last = NoCall
    /\ hwm = 0
    /\ files = [t \in Tables |-> << >>]
    /\ db0 = db
    /\ pc = "ready" /\ stage = 0 /\ df = << >> /\ exc = "none"
    /\ ops = << >> /\ closes = 0 /\ runs = 0 /\ result = "none" /\ failed = {}
    /\ sess = NoSessions

ApiLoadDimension ==
    /\ pc = "ready" /\ target \in DimTables
    /\ \E d \in DataFrames :
        \E failAt \in 0..Len(d) :
        \E r \in {load_dimension(db[target], txn, d, failAt)} :
             /\ db' = [db EXCEPT ![target] = r.tx.db]
             /\ txn' = r.tx.status
             /\ last' = Call("load_dimension", target, d, db[target], failAt, FALSE, r)
    /\ pc' = "returned"
    /\ UNCHANGED <<factKeyed, conn, cursor, target, hwm, files, db0, stage, df,
                   exc, ops, closes, runs, result, failed, sess>>

\* The client repeats the load_dimension call that has just succeeded.
ApiLoadDimensionAgain ==
    /\ pc = "returned" /\ last.op = "load_dimension"
    /\ last.outcome = "ok" /\ ~last.again
    /\ \E r \in {load_dimension(db[target], txn, last.df, last.failAt)} :
          /\ db' = [db EXCEPT ![target] = r.tx.db]
          /\ txn' = r.tx.status
          /\ last' = Call("load_dimension", target, last.df, db[target],
                          last.failAt, TRUE, r)
    /\ UNCHANGED <<factKeyed, conn, cursor, target, hwm, etlVars, sess>>

ApiIncrementalLoadFacts ==
    /\ pc = "ready" /\ target = FactTable
    /\ \E d \in FactFrames :
        \E failAt \in 0..Len(new_records(d, select_max_id(db[target]))) :
        \E r \in {incremental_load_facts(db[target], txn, d, factKeyed, failAt)} :
             /\ db' = [db EXCEPT ![target] = r.tx.db]
             /\ txn' = r.tx.status
             /\ last' = Call("incremental_load_facts", target, d, db[target],
                             failAt, FALSE, r)
             /\ hwm' = Highest(hwm, r.tx.db)
    /\ pc' = "returned"
    /\ UNCHANGED <<factKeyed, conn, cursor, target, files, db0, stage, df,
                   exc, ops, closes, runs, result, failed, sess>>

\* The client has seen the outcome and is ready for its next call.
ApiReturn ==
    /\ pc = "returned"
    /\ pc' = "ready"
    /\ last' = NoCall
    /\ UNCHANGED <<db, factKeyed, conn, cursor, txn, target, hwm, files, db0,
                   stage, df, exc, ops, closes, runs, result, failed, sess>>

NextApi ==
    \/ ApiLoadDimension
    \/ ApiLoadDimensionAgain
    \/ ApiIncrementalLoadFacts
    \/ ApiReturn

Spec == InitApi /\ [][NextApi]_vars

\* ----------------------------------------------------------- run_full_etl
\* The tables of run_full_etl, in the order of its calls.
Stages ==
    <<"dim_date", "dim_sales_rep", "dim_doctor", "dim_product", "dim_territory",
      "fact_sales">>

\* The files data/<table>.csv as generate_data.py writes them: a dimension
\* file holds the keys 1..n in order, the sales file holds the sale_ids
\* 1..n once each (the merge on product_key may reorder them).  The five
\* dimension files hold the same rows.
DimFiles == {[i \in 1..n |-> [id |-> i, val |-> "a"]] : n \in 0..MaxKey}
FactFiles ==
    UNION {{[i \in 1..n |-> [id |-> q[i], val |-> "a"]] :
            q \in {f \in [1..n -> 1..n] : \A i, j \in 1..n : f[i] = f[j] => i = j}} :
           n \in 0..MaxSaleId}

\* The warehouses the first execution can find: each relation empty, or
\* holding a row loaded from an earlier version of its file.
OneRow(k, v) == [r \in Row |-> IF r = [id |-> k, val |-> v] THEN 1 ELSE 0]
Warehouses ==
    {[t \in Tables |-> EmptyTable],
     [t \in Tables |-> IF t \in DimTables THEN OneRow(1, "b") ELSE OneRow(1, "a")]}

\* pd.read_csv(file_path) with its default options: one DataFrame row per
\* record, in file order; a missing field is read as NaN, every other
\* field as the value its text denotes.
\* (read_csv_no_header: the slip of a file whose first record is taken for
\* the header line.)
read_csv_no_header(f) ==
    [i \in 1..(Len(f) - 1) |->
        [id |-> f[i + 1].id, val |-> IF f[i + 1].val = "" THEN NaN ELSE f[i + 1].val]]
read_csv(f) ==
    [i \in 1..Len(f) |-> [id |-> f[i].id, val |-> IF f[i].val = "" THEN NaN ELSE f[i].val]]

\* extract_csv(file_path): the rows of the file, or an error when the file
\* cannot be read.
extract_csv(fs, t, readable) ==
    IF readable THEN [err |-> "none", df |-> read_csv(fs[t])]
    ELSE [err |-> "ExtractionError", df |-> << >>]

\* Where run_full_etl goes after the operation at position `at` ended with
\* err: an exception leaves the try block for the finally clause.
\* (next_pc_continue: the slip of an except clause that swallows the error.)
next_pc_continue(at, err, st) ==
    CASE at = "connect" -> "extract"
      [] at = "extract" -> "load"
      [] OTHER -> IF st < Len(Stages) THEN "extract" ELSE "finally"
next_pc(at, err, st) ==
    IF err # "none" THEN "finally"
    ELSE CASE at = "connect" -> "extract"
           [] at = "extract" -> "load"
           [] OTHER -> IF st < Len(Stages) THEN "extract" ELSE "finally"

\* The finally clause of run_full_etl: close(), whatever happened.
\* (finally_on_success: the slip of closing at the end of the try block.)
finally_on_success(c, cur, e) ==
    IF e = "none" THEN [s |-> close(c, cur), calls |-> 1]
    ELSE [s |-> [conn |-> c, cursor |-> cur], calls |-> 0]
finally(c, cur, e) == [s |-> close(c, cur), calls |-> 1]

Op(op, t, err) == [op |-> op, table |-> t, err |-> err]

InitEtl ==
    /\ db \in Warehouses
    /\ factKeyed \in BOOLEAN
    /\ conn = "none" /\ cursor = "none" /\ txn = "idle"
    /\ target = "none"
    /\ last = NoCall
    /\ hwm = SetMax(KeysOf(db[FactTable]))
    /\ \E d \in DimFiles, f \in FactFiles :
          files = [t \in Tables |-> IF t \in DimTables THEN d ELSE f]
    /\ db0 = db
    /\ pc = "idle" /\ stage = 0 /\ df = << >> /\ exc = "none"
    /\ ops = << >> /\ closes = 0 /\ runs = 0 /\ result = "none" /\ failed = {}
    /\ sess = NoSessions

\* etl = PharmaETL(db_config); etl.run_full_etl()
EtlStart ==
    /\ pc \in {"idle", "done"} /\ runs < MaxRuns
    /\ conn' = "none" /\ cursor' = "none" /\ txn' = "idle"
    /\ pc' = "connect" /\ stage' = 0 /\ df' = << >> /\ exc' = "none"
    /\ ops' = << >> /\ closes' = 0 /\ runs' = runs + 1 /\ result' = "none"
    /\ UNCHANGED <<db, factKeyed, target, last, hwm, files, db0, failed,
                   sess>>

EtlConnect ==
    /\ pc = "connect"
    /\ \E how \in {"ok", "connect", "cursor"} :
        \E r \in {connect(conn, cursor, how)} :
             /\ conn' = r.conn /\ cursor' = r.cursor
             /\ exc' = r.err
             /\ ops' = Append(ops, Op("connect", "none", r.err))
             /\ pc' = next_pc("connect", r.err, 0)
             /\ stage' = IF r.err = "none" THEN 1 ELSE stage
    /\ UNCHANGED <<db, factKeyed, txn, target, last, hwm, files, db0, df,
                   closes, runs, result, failed, sess>>

EtlExtract ==
    /\ pc = "extract"
    /\ \E readable \in BOOLEAN :
        \E r \in {extract_csv(files, Stages[stage], readable)} :
             /\ df' = r.df
             /\ exc' = r.err
             /\ ops' = Append(ops, Op("extract_csv", Stages[stage], r.err))
             /\ pc' = next_pc("extract", r.err, stage)
    /\ UNCHANGED <<db, factKeyed, conn, cursor, txn, target, last, hwm, files,
                   db0, stage, closes, runs, result, failed, sess>>

EtlLoadDimension ==
    /\ pc = "load" /\ Stages[stage] \in DimTables
    /\ \E failAt \in 0..Len(df) :
        \E t \in {Stages[stage]} :
        \E r \in {load_dimension(db[t], txn, df, failAt)} :
             /\ db' = [db EXCEPT ![t] = r.tx.db]
             /\ txn' = r.tx.status
             /\ exc' = r.err
             /\ ops' = Append(ops, Op("load_dimension", t, r.err))
             /\ pc' = next_pc("load", r.err, stage)
             /\ stage' = IF r.err = "none" THEN stage + 1 ELSE stage
             /\ failed' = IF r.outcome = "raised" /\ failAt >= 2
                          THEN failed \cup {"load_dimension"} ELSE failed
    /\ UNCHANGED <<factKeyed, conn, cursor, target, last, hwm, files, db0, df,
                   closes, runs, result, sess>>

EtlIncrementalLoadFacts ==
    /\ pc = "load" /\ Stages[stage] = FactTable
    /\ \E failAt \in 0..Len(new_records(df, select_max_id(db[FactTable]))) :
        \E r \in {incremental_load_facts(db[FactTable], txn, df, factKeyed, failAt)} :
             /\ db' = [db EXCEPT ![FactTable] = r.tx.db]
             /\ txn' = r.tx.status
             /\ hwm' = Highest(hwm, r.tx.db)
             /\ exc' = r.err
             /\ ops' = Append(ops, Op("incremental_load_facts", FactTable, r.err))
             /\ pc' = next_pc("load", r.err, stage)
             /\ failed' = IF r.outcome = "raised" /\ failAt >= 2
                          THEN failed \cup {"incremental_load_facts"} ELSE failed
    /\ UNCHANGED <<factKeyed, conn, cursor, target, last, files, db0, stage, df,
                   closes, runs, result, sess>>

\* The finally clause, after which run_full_etl returns or raises exc.
EtlFinally ==
    /\ pc = "finally"
    /\ \E r \in {finally(conn, cursor, exc)} :
          /\ conn' = r.s.conn /\ cursor' = r.s.cursor
          /\ closes' = closes + r.calls
          /\ txn' = IF r.calls > 0 THEN "idle" ELSE txn
    /\ result' = IF exc = "none" THEN "ok" ELSE exc
    /\ pc' = "done"
    /\ UNCHANGED <<db, factKeyed, target, last, hwm, files, db0, stage, df,
                   exc, ops, runs, failed, sess>>

NextEtl ==
    \/ EtlStart
    \/ EtlConnect
    \/ EtlExtract
    \/ EtlLoadDimension
    \/ EtlIncrementalLoadFacts
    \/ EtlFinally

Running == pc \in {"connect", "extract", "load", "finally"}
SpecEtl == InitEtl /\ [][NextEtl]_vars

\* run_full_etl over one set of files: MaxKey rows in every dimension file,
\* MaxSaleId rows, in sale_id order, in the sales file.  run_full_etl is
\* sequential code, so a call that has started takes its next step: weak
\* fairness of the steps of a started call.
InitRun ==
    /\ InitEtl
    /\ files = [t \in Tables |->
                  IF t \in DimTables THEN [i \in 1..MaxKey |-> [id |-> i, val |-> "a"]]
                  ELSE [i \in 1..MaxSaleId |-> [id |-> i, val |-> "a"]]]
SpecRun ==
    InitRun /\ [][NextEtl]_vars
    /\ WF_vars(EtlConnect \/ EtlExtract \/ EtlLoadDimension
               \/ EtlIncrementalLoadFacts \/ EtlFinally)

\* ------------------------------------ two processes, one fact relation
\* Two processes run incremental_load_facts on the same sales file, each
\* in its own session on the same warehouse (READ COMMITTED): a session
\* sees the committed rows and its own uncommitted ones.  The statements
\* of the two sessions interleave in any order.
Sessions == {"A", "B"}
Other(p) == CHOOSE q \in Sessions : q # p
NewSession ==
    [pc |-> "start", max_id |-> 0, records |-> << >>, i |-> 0,
     work |-> EmptyTable, status |-> "idle", outcome |-> "none", err |-> "none"]

\* The rows session p sees, and its transaction on the fact relation.
Visible(p) == BagPlus(db[FactTable], sess[p].work)
TxOf(p) == [db |-> db[FactTable], work |-> Visible(p), status |-> sess[p].status]
\* On a relation with a unique key, an INSERT under key k waits while
\* another session holds an uncommitted row under k.
Waits(p, k) == factKeyed /\ \E r \in RowsOf(sess[Other(p)].work) : r.id = k

InitTwo ==
    /\ \E w \in {EmptyTable, OneRow(1, "a")} :
          db = [t \in Tables |-> IF t = FactTable THEN w ELSE EmptyTable]
    /\ factKeyed \in BOOLEAN
    /\ conn = "open" /\ cursor = "open" /\ txn = "idle"
    /\ target = FactTable
    /\ last = NoCall
    /\ hwm = SetMax(KeysOf(db[FactTable]))
    /\ \E f \in FactFrames : files = [t \in Tables |-> IF t = FactTable THEN f ELSE << >>]
    /\ db0 = db
    /\ pc = "ready" /\ stage = 0 /\ df = << >> /\ exc = "none"
    /\ ops = << >> /\ closes = 0 /\ runs = 0 /\ result = "none" /\ failed = {}
    /\ sess = [p \in Sessions |-> NewSession]

\* cursor.execute(SELECT COALESCE(MAX(sale_id), 0) ...), fetchone, the
\* filter and the early return: all but the SELECT are local to the process.
TwoSelect(p) ==
    /\ sess[p].pc = "start"
    /\ \E w \in {select_max_id(Visible(p))} :
        \E recs \in {new_records(files[FactTable], w)} :
             sess' = [sess EXCEPT ![p] =
                        [@ EXCEPT !.max_id = w, !.records = recs, !.i = 1,
                                  !.status = "active",
                                  !.pc = IF Len(recs) = 0 THEN "done" ELSE "insert",
                                  !.outcome = IF Len(recs) = 0 THEN "noop" ELSE "none"]]
    /\ UNCHANGED <<db, factKeyed, conn, cursor, txn, target, last, hwm, etlVars>>

\* The next INSERT of execute_batch.  The server may refuse it (a value of
\* the wrong type) or find its key taken; the process then rolls back and
\* raises.
TwoInsert(p) ==
    /\ sess[p].pc = "insert"
    /\ \E refused \in BOOLEAN :
        /\ refused \/ ~Waits(p, sess[p].records[sess[p].i].id)
        /\ \E r \in {IF refused
                      THEN [ok |-> FALSE, tbl |-> Visible(p), err |-> "DataError"]
                      ELSE Insert(Visible(p), sess[p].records[sess[p].i],
                                  factKeyed, fact_query)} :
             sess' = [sess EXCEPT ![p] =
                        IF r.ok
                        THEN [@ EXCEPT !.work = [x \in Row |-> r.tbl[x] - db[FactTable][x]],
                                       !.i = @ + 1,
                                       !.pc = IF sess[p].i = Len(sess[p].records)
                                              THEN "commit" ELSE "insert"]
                        ELSE [@ EXCEPT !.work = EmptyTable,
                                       !.status = rollback(TxOf(p)).status,
                                       !.pc = "done",
                                       !.outcome = "raised", !.err = r.err]]
    /\ UNCHANGED <<db, factKeyed, conn, cursor, txn, target, last, hwm, etlVars>>

\* self.conn.commit()
TwoCommit(p) ==
    /\ sess[p].pc = "commit"
    /\ \E r \in {commit(TxOf(p))} :
          /\ db' = [db EXCEPT ![FactTable] = r.db]
          /\ hwm' = Highest(hwm, r.db)
          /\ sess' = [sess EXCEPT ![p] =
                        [@ EXCEPT !.work = EmptyTable, !.status = r.status,
                                  !.pc = "done", !.outcome = "ok"]]
    /\ UNCHANGED <<factKeyed, conn, cursor, txn, target, last, etlVars>>

NextTwo ==
    \E p \in Sessions :
        \/ TwoSelect(p)
        \/ TwoInsert(p)
        \/ TwoCommit(p)

SpecTwo == InitTwo /\ [][NextTwo]_vars

\* ------------------------------------------------ an append-only source
\* The sales file grows between loads: every version holds each sale_id
\* once, keeps the records of the version before it and adds records with
\* larger sale_ids, in any order of the records.
SalesFiles == {f \in FactFrames : \A i, j \in 1..Len(f) : f[i].id = f[j].id => i = j}
Appended(f, g) ==
    /\ g # f
    /\ \A i \in 1..Len(f) : \E j \in 1..Len(g) : g[j] = f[i]
    /\ \A j \in 1..Len(g) :
          (\E i \in 1..Len(f) : f[i] = g[j]) \/ \A i \in 1..Len(f) : g[j].id > f[i].id

InitAppend ==
    /\ db = [t \in Tables |-> EmptyTable]
    /\ factKeyed \in BOOLEAN
    /\ conn = "open" /\ cursor = "open" /\ txn = "idle"
    /\ target = FactTable
    /\ last = NoCall
    /\ hwm = 0
    /\ files = [t \in Tables |-> << >>]
    /\ db0 = db
    /\ pc = "ready" /\ stage = 0 /\ df = << >> /\ exc = "none"
    /\ ops = << >> /\ closes = 0 /\ runs = 0 /\ result = "none" /\ failed = {}
    /\ sess = NoSessions

\* generate_data.py writes the next version of data/fact_sales.csv.
SrcAppend ==
    /\ pc = "ready"
    /\ \E g \in SalesFiles :
          /\ Appended(files[FactTable], g)
          /\ files' = [files EXCEPT ![FactTable] = g]
    /\ UNCHANGED <<db, factKeyed, conn, cursor, txn, target, last, hwm, db0, pc,
                   stage, df, exc, ops, closes, runs, result, failed, sess>>

\* fact_sales = extract_csv('data/fact_sales.csv');
\* incremental_load_facts(fact_sales)
SrcLoad ==
    /\ pc = "ready"
    /\ \E d \in {extract_csv(files, FactTable, TRUE).df} :
        \E failAt \in 0..Len(new_records(d, select_max_id(db[FactTable]))) :
        \E r \in {incremental_load_facts(db[FactTable], txn, d, factKeyed, failAt)} :
             /\ db' = [db EXCEPT ![FactTable] = r.tx.db]
             /\ txn' = r.tx.status
             /\ last' = Call("incremental_load_facts", FactTable, d, db[FactTable],
                             failAt, FALSE, r)
             /\ hwm' = Highest(hwm, r.tx.db)
             /\ df' = d
    /\ pc' = "returned"
    /\ UNCHANGED <<factKeyed, conn, cursor, target, files, db0, stage,
                   exc, ops, closes, runs, result, failed, sess>>

NextAppend ==
    \/ SrcAppend
    \/ SrcLoad
    \/ ApiReturn

SpecAppend == InitAppend /\ [][NextAppend]_vars

\* ------------------------------------------- extract, then load_dimension
\* A dimension file of any content: records with a key and the other
\* fields, present or missing, keys in any order and possibly repeated.
CsvRow == [id : 1..MaxKey, val : Cells]
CsvFiles == SeqsUpTo(CsvRow, MaxRows)

\* The file of dim_product is extracted and loaded into the empty relation,
\* as run_full_etl does it for each dimension.
InitTrip ==
    /\ db = [t \in Tables |-> EmptyTable]
    /\ factKeyed = TRUE
    /\ conn = "open" /\ cursor = "open" /\ txn = "idle"
    /\ target = "dim_product"
    /\ last = NoCall
    /\ hwm = 0
    /\ \E f \in CsvFiles : files = [t \in Tables |-> IF t = target THEN f ELSE << >>]
    /\ db0 = db
    /\ pc = "extract" /\ stage = 0 /\ df = << >> /\ exc = "none"
    /\ ops = << >> /\ closes = 0 /\ runs = 0 /\ result = "none" /\ failed = {}
    /\ sess = NoSessions

TripExtract ==
    /\ pc = "extract"
    /\ \E readable \in BOOLEAN :
        \E r \in {extract_csv(files, target, readable)} :
             /\ df' = r.df
             /\ exc' = r.err
             /\ pc' = IF r.err = "none" THEN "load" ELSE "raised"
    /\ UNCHANGED <<db, factKeyed, conn, cursor, txn, target, last, hwm, files,
                   db0, stage, ops, closes, runs, result, failed, sess>>

TripLoadDimension ==
    /\ pc = "load"
    /\ \E failAt \in 0..Len(df) :
        \E r \in {load_dimension(db[target], txn, df, failAt)} :
             /\ db' = [db EXCEPT ![target] = r.tx.db]
             /\ txn' = r.tx.status
             /\ exc' = r.err
             /\ last' = Call("load_dimension", target, df, db[target], failAt, FALSE, r)
    /\ pc' = "returned"
    /\ UNCHANGED <<factKeyed, conn, cursor, target, hwm, files, db0, stage, df,
                   ops, closes, runs, result, failed, sess>>

NextTrip ==
    \/ TripExtract
    \/ TripLoadDimension

SpecTrip == InitTrip /\ [][NextTrip]_vars

\* ------------------------------------------------------------ properties
Ids(d) == {d[i].id : i \in 1..Len(d)}
Watermark(tbl) == SetMax(KeysOf(tbl))
AboveWatermark(d, w) == SelectSeq(d, LAMBDA r : r.id > w)
FactCall == last.op = "incremental_load_facts"
DimCall == last.op = "load_dimension"

\* C1: a call of incremental_load_facts that succeeds has read the
\* watermark W = MAX(sale_id) of the destination (0 when it is empty) and
\* has added to the destination exactly the input rows with sale_id > W,
\* each as often as the input holds it, and nothing else.
C1_InsertsExactlyRowsAboveWatermark ==
    (FactCall /\ last.outcome \in {"ok", "noop"}) =>
        /\ last.max_id = Watermark(last.pre)
        /\ db[FactTable] =
              BagPlus(last.pre, BagOfSeq(AboveWatermark(last.df, Watermark(last.pre))))
        /\ Watermark(db[FactTable]) =
              SetMax({Watermark(last.pre)} \cup Ids(last.df))

\* The scenario of C1: watermark 1, input ids {1, 2, 3}: 2 and 3 are
\* inserted, 1 is not, and the new watermark is 3.
C1_Witness ==
    /\ FactCall /\ last.outcome = "ok"
    /\ Watermark(last.pre) = 1
    /\ Ids(last.df) = {1, 2, 3}
    /\ Ids(last.records) = {2, 3}
    /\ Watermark(db[FactTable]) = 3

\* C2: from one state to the next the destination's MAX(sale_id) never
\* decreases, and every row that gets committed has a sale_id above every
\* maximum observed so far.
C2_WatermarkMonotone ==
    [][/\ Watermark(db'[FactTable]) >= Watermark(db[FactTable])
       /\ \A r \in Row :
             db'[FactTable][r] > db[FactTable][r] => r.id > hwm]_vars

\* A load on top of an earlier one, whose input reaches back below the
\* watermark the earlier load left.
C2_Witness ==
    /\ FactCall /\ last.outcome = "ok"
    /\ hwm > last.max_id /\ last.max_id >= 2
    /\ \E i \in 1..Len(last.df) : last.df[i].id < last.max_id

\* C3 as stated: every call of incremental_load_facts that returns without
\* raising leaves MAX(sale_id) strictly greater than it was.
C3_EveryReturnRaisesWatermark ==
    (FactCall /\ last.outcome \in {"ok", "noop"}) =>
        Watermark(db[FactTable]) > Watermark(last.pre)

\* C3 as amended: a call that returns without raising and has inserted at
\* least one row leaves MAX(sale_id) strictly greater than it was; a call
\* that finds no row above the watermark returns without raising and
\* leaves MAX(sale_id) as it was.
C3_InsertingLoadRaisesWatermark ==
    FactCall =>
        /\ last.outcome = "ok" =>
              /\ Len(last.records) > 0
              /\ Watermark(db[FactTable]) > Watermark(last.pre)
        /\ last.outcome = "noop" =>
              /\ Len(last.records) = 0
              /\ Watermark(db[FactTable]) = Watermark(last.pre)

C3_Witness ==
    /\ FactCall /\ last.outcome = "ok"
    /\ Watermark(last.pre) = 2
    /\ Watermark(db[FactTable]) = 3

\* C4: a load call in which the server refuses a statement, in whatever
\* page of the batch, raises an error, and the destination then holds
\* exactly the rows it held before the call.
C4_FailedLoadLeavesNothing ==
    (DimCall \/ FactCall) =>
        /\ last.failAt \in 1..Len(last.records) => last.outcome = "raised"
        /\ last.outcome = "raised" =>
              /\ db[last.table] = last.pre
              /\ last.err \in {"DataError", "UniqueViolation"}

\* A load_dimension call that fails in its second page, after a first page
\* of rows the destination did not hold.
C4_Witness ==
    /\ DimCall /\ last.outcome = "raised"
    /\ last.pages >= 1
    /\ last.failAt > page_size
    /\ last.df[1].id \notin KeysOf(last.pre)

\* C5: a load_dimension call repeated with the same input right after it
\* succeeded succeeds again and leaves the destination as the first call
\* left it, with no key held twice.
C5_LoadDimensionIdempotent ==
    (DimCall /\ last.again) =>
        /\ last.outcome = "ok"
        /\ db[last.table] = last.pre
        /\ \A k \in 1..MaxKey : CountId(db[last.table], k) <= 1

\* The repeated call had rows to insert, two of them under one key.
C5_Witness ==
    /\ DimCall /\ last.again /\ last.outcome = "ok"
    /\ Len(last.df) >= 2
    /\ last.df[1].id = last.df[2].id /\ last.df[1].val # last.df[2].val

\* C6: after a load_dimension call that succeeds the destination's keys
\* are the keys it had and the keys of the input, and every row it held
\* is still there, unchanged.
C6_UnionByKeyExistingUntouched ==
    (DimCall /\ last.outcome = "ok") =>
        /\ KeysOf(db[last.table]) = KeysOf(last.pre) \cup Ids(last.df)
        /\ \A r \in Row :
              r.id \in KeysOf(last.pre) => db[last.table][r] = last.pre[r]

\* The input carried a row under a key the destination held with other
\* field values, next to a row under a new key.
C6_Witness ==
    /\ DimCall /\ last.outcome = "ok"
    /\ \E i \in 1..Len(last.df) :
          /\ last.df[i].id \in KeysOf(last.pre)
          /\ last.pre[last.df[i]] = 0
    /\ \E i \in 1..Len(last.df) : last.df[i].id \notin KeysOf(last.pre)

\* C7: a call of incremental_load_facts whose input has no row above the
\* destination's MAX(sale_id) sends no statement, leaves the destination
\* as it was and returns without raising.
C7_NothingAboveWatermarkIsNoOp ==
    (FactCall /\ \A i \in 1..Len(last.df) : last.df[i].id <= Watermark(last.pre)) =>
        /\ last.outcome = "noop"
        /\ last.err = "none"
        /\ Len(last.records) = 0 /\ last.pages = 0
        /\ db[FactTable] = last.pre

\* A non-empty input, all of it at or below the watermark.
C7_Witness ==
    /\ FactCall /\ last.outcome = "noop"
    /\ Len(last.df) >= 2
    /\ \E i \in 1..Len(last.df) : last.df[i].id = Watermark(last.pre)
    /\ \E i \in 1..Len(last.df) : last.df[i].id < Watermark(last.pre)

\* The i-th operation of a run_full_etl execution in which nothing fails.
CanonOp(i) ==
    IF i = 1 THEN <<"connect", "none">>
    ELSE IF i % 2 = 0 THEN <<"extract_csv", Stages[i \div 2]>>
    ELSE <<IF Stages[(i - 1) \div 2] \in DimTables
           THEN "load_dimension" ELSE "incremental_load_facts",
           Stages[(i - 1) \div 2]>>
CanonLen == 1 + 2 * Len(Stages)

\* C8: every execution of run_full_etl that has started reaches its end;
\* close() is not called before the finally clause and is called exactly
\* once by the time the execution ends, on every path, and then neither
\* the connection nor the cursor is open.
C8_CloseExactlyOnce ==
    /\ [](Running => closes = 0)
    /\ [](pc = "done" => closes = 1 /\ conn # "open" /\ cursor # "open")
    /\ [](Running => <>(pc = "done"))

\* An execution that connected, failed in the fact load, and has ended
\* with its connection closed.
C8_Witness ==
    /\ pc = "done" /\ result = "DataError"
    /\ Stages[stage] = FactTable
    /\ conn = "closed" /\ cursor = "closed" /\ closes = 1

\* C9: the operations run_full_etl issues are a prefix of connect, then
\* extract and load of dim_date, dim_sales_rep, dim_doctor, dim_product,
\* dim_territory, fact_sales; every operation but the last issued one has
\* succeeded; and the execution ends with the error of the last issued
\* operation, or without error after all of them.
C9_FixedOrderAbortOnFirstFailure ==
    /\ Len(ops) <= CanonLen
    /\ \A i \in 1..Len(ops) :
          /\ <<ops[i].op, ops[i].table>> = CanonOp(i)
          /\ i < Len(ops) => ops[i].err = "none"
    /\ exc # "none" => /\ pc \in {"finally", "done"}
                       /\ exc = ops[Len(ops)].err
    /\ pc = "done" =>
          /\ Len(ops) >= 1
          /\ result = IF ops[Len(ops)].err = "none" THEN "ok" ELSE ops[Len(ops)].err
          /\ result = "ok" => Len(ops) = CanonLen

\* An execution that ended with the error of extracting dim_doctor, its
\* sixth operation.
C9_Witness ==
    /\ pc = "done" /\ result = "ExtractionError"
    /\ Len(ops) = 6 /\ ops[6].table = "dim_doctor"

\* What one execution of run_full_etl in which nothing fails leaves, from
\* warehouse w: each dimension relation gains the first file row of every
\* key it did not hold, the fact relation gains the file rows above its
\* MAX(sale_id).
ExpectedDim(pre, f) ==
    [r \in Row |->
        IF r.id \in KeysOf(pre) THEN pre[r]
        ELSE IF \E i \in 1..Len(f) :
                   f[i] = r /\ \A j \in 1..(i - 1) : f[j].id # r.id
             THEN 1 ELSE 0]
ExpectedFact(pre, f) == BagPlus(pre, BagOfSeq(AboveWatermark(f, Watermark(pre))))
SingleRun(w) ==
    [t \in Tables |-> IF t \in DimTables THEN ExpectedDim(w[t], files[t])
                      ELSE ExpectedFact(w[t], files[t])]

\* C10: whenever an execution of run_full_etl ends without error, after
\* whatever earlier executions that failed or succeeded, the warehouse is
\* what a single execution without failure leaves from the initial
\* warehouse, and no relation holds two rows under one key.
C10_RerunEqualsSingleRun ==
    (pc = "done" /\ result = "ok") =>
        /\ db = SingleRun(db0)
        /\ \A t \in Tables : \A r \in Row : CountId(db[t], r.id) <= 1

\* A third execution that succeeded after a dimension load and the fact
\* load had each failed part-way through their batch.
C10_Witness ==
    /\ pc = "done" /\ result = "ok" /\ runs = 3
    /\ failed = {"load_dimension", "incremental_load_facts"}
    /\ Len(files[FactTable]) = 3
    /\ db # db0

\* The number of rows of a relation.
Size(tbl) ==
    LET RECURSIVE Sum(_)
        Sum(S) == IF S = {} THEN 0
                  ELSE LET r == CHOOSE x \in S : TRUE IN tbl[r] + Sum(S \ {r})
    IN Sum(Row)
\* Every record of file f has a row in tbl that equals it field for field.
FieldForField(f, tbl) ==
    \A i \in 1..Len(f) :
        \E r \in RowsOf(tbl) : r.id = f[i].id /\ r.val = f[i].val
DistinctKeys(f) == \A i, j \in 1..Len(f) : f[i].id = f[j].id => i = j
AllPresent(f) == \A i \in 1..Len(f) : f[i].val # ""
TripDone == pc = "returned" /\ DimCall /\ last.outcome = "ok" /\ last.pre = EmptyTable

C12_NoTransactionInFlightAfterLoad ==
    (pc = "returned" /\ (DimCall \/ FactCall)) => txn = "idle"

\* C12 without the no-new-records path: a load call that committed or
\* rolled back leaves no transaction in flight; the no-new-records return
\* of incremental_load_facts leaves the transaction its SELECT opened.
C12_CommittedOrRolledBackLeavesNoTransaction ==
    (pc = "returned" /\ (DimCall \/ FactCall)) =>
        /\ last.outcome \in {"ok", "raised"} => txn = "idle"
        /\ last.outcome = "noop" => txn = "active"

Scale(tbl, k) == [r \in Row |-> k * tbl[r]]
TwoDone == \A p \in Sessions : sess[p].pc = "done"
\* Both sessions read the same watermark and had rows above it to insert.
SameWatermark ==
    /\ \A p, q \in Sessions : sess[p].max_id = sess[q].max_id
    /\ \A p \in Sessions : Len(sess[p].records) > 0
Committers == {p \in Sessions : sess[p].outcome = "ok"}

\* C13: when two sessions running incremental_load_facts on the same file
\* have both read the same watermark W, both attempt to insert the same
\* rows with sale_id > W, and the outcome is not that of one load: every
\* session that commits adds all of these rows, so that without a unique
\* key the rows are in the destination twice, at or below the maximum the
\* other session committed; with a unique key at most one session commits
\* and, unless the server refused a statement for another reason, a
\* session fails with a key violation.
C13_SameWatermarkDuplicatesOrKeyViolation ==
    (TwoDone /\ SameWatermark) =>
        /\ \A p, q \in Sessions : sess[p].records = sess[q].records
        /\ \A p \in Sessions :
              sess[p].records = AboveWatermark(files[FactTable], Watermark(db0[FactTable]))
        /\ db[FactTable] =
              BagPlus(db0[FactTable],
                      Scale(BagOfSeq(sess["A"].records), Cardinality(Committers)))
        /\ \A p \in Sessions : sess[p].err = "UniqueViolation" => factKeyed
        /\ (\A p \in Sessions : sess[p].err # "DataError") =>
              IF factKeyed
              THEN /\ Cardinality(Committers) <= 1
                   /\ \E p \in Sessions : sess[p].err = "UniqueViolation"
              ELSE Committers = Sessions

\* Both sessions read watermark 1 and both committed: the rows above 1
\* are in the destination twice, each inserted a second time when a row
\* with its sale_id, and the maximum, were already committed.
C13_Witness ==
    /\ TwoDone /\ ~factKeyed
    /\ Committers = Sessions
    /\ \A p \in Sessions : sess[p].max_id = 1 /\ Len(sess[p].records) >= 2
    /\ \A r \in Row : r.id > 1 /\ db[FactTable][r] > 0 => db[FactTable][r] >= 2
    /\ \E r \in Row : db[FactTable][r] = 2 /\ r.id < Watermark(db[FactTable])

\* With a unique key on sale_id: both sessions read watermark 1, one
\* committed and the other failed on the key of a row the first had
\* committed.
C13_WitnessKeyViolation ==
    /\ TwoDone /\ factKeyed
    /\ \A p \in Sessions : sess[p].max_id = 1
    /\ \E p \in Sessions :
          /\ sess[p].outcome = "ok"
          /\ sess[Other(p)].err = "UniqueViolation"

====
